---------------------------- MODULE Spec2Model ----------------------------
(***************************************************************************)
(* Model of src/src/app/tree-checklist-example.ts: the ChecklistDatabase   *)
(* store (a forest of TodoItemNode objects published through a             *)
(* BehaviorSubject) and the TreeChecklistExample component (the flattener  *)
(* callbacks, the two lookup maps and the UI handlers).                    *)
(*                                                                         *)
(* Objects are modelled by their addresses.  TodoItemNode objects live in  *)
(* `heap` (address = position, never reused), TodoItemFlatNode objects in  *)
(* `flat`.  A `children` field that is undefined is hasChildren = FALSE.   *)
(* JavaScript array indices are 0-based; sequences here are 1-based, so    *)
(* the element a[k] of the code is a[k + 1] in the model.                  *)
(***************************************************************************)
EXTENDS Integers, Sequences, FiniteSets, TLC

\* ------------------------------------------------------------------ bounds
MaxNodes == 3
MaxFlat == 3
MaxClock == 1

\* The labels a caller may pass ('' is what the component passes on insert).
Labels == {"", "a"}

\* The value of a field that was never assigned (`{ item: name }`, line 129).
undefinedId == -1
undefinedType == "undefined"

\* The result of a lookup that finds nothing (null / undefined reference).
null == 0

VARIABLES
    heap,           \* TodoItemNode objects: Seq of [children, hasChildren, item, id, type]
    dataChange,     \* BehaviorSubject value: [ref |-> array identity, value |-> root sequence]
    clock,          \* the last value read from new Date().valueOf()
    flat,           \* TodoItemFlatNode objects: Seq of [item, level, expandable, id, type]
    flatNodeMap,    \* Map<TodoItemFlatNode, TodoItemNode>
    nestedNodeMap,  \* Map<TodoItemNode, TodoItemFlatNode>
    dataNodes,      \* treeControl.dataNodes: the flattened data of the data source
    call            \* the last call: operation, roots before it, store calls and publications made

vars == <<heap, dataChange, clock, flat, flatNodeMap, nestedNodeMap, dataNodes, call>>

\* ----------------------------------------------------------------- helpers
\* Map.set(k, v)
MapSet(m, k, v) == (k :> v) @@ m

\* Map.get(k): undefined (null) when absent
MapGet(m, k) == IF k \in DOMAIN m THEN m[k] ELSE null

\* Array.prototype.splice(start, 1) on a 0-based start: a negative start counts
\* from the end, a start beyond the end removes nothing.
splice(s, start) ==
    LET len == Len(s)
        k == IF start < 0
             THEN (IF len + start > 0 THEN len + start ELSE 0)
             ELSE (IF start < len THEN start ELSE len)
    IN  IF k >= len THEN s
        ELSE SubSeq(s, 1, k) \o SubSeq(s, k + 2, len)

\* Array.prototype.findIndex((x) => x.id === id): 0-based, -1 when none matches.
findIndex(h, s, id) ==
    LET hits == {k \in 1..Len(s) : h[s[k]].id = id}
    IN  IF hits = {} THEN -1
        ELSE (CHOOSE k \in hits : \A m \in hits : k <= m) - 1

\* Array.prototype.indexOf(x): 0-based, -1 when absent.
indexOf(s, x) ==
    LET hits == {k \in 1..Len(s) : s[k] = x}
    IN  IF hits = {} THEN -1
        ELSE (CHOOSE k \in hits : \A m \in hits : k <= m) - 1

\* What is kept of the last call: the operation, the root sequence it started
\* from, and how many store operations it invoked and how many publications
\* they made.
Called(op, w) ==
    [op |-> op, before |-> dataChange.value, calls |-> w.calls, pubs |-> w.pubs]

\* The state the operations work on, as one record.
World ==
    [heap |-> heap, dataChange |-> dataChange, flat |-> flat,
     flatNodeMap |-> flatNodeMap, nestedNodeMap |-> nestedNodeMap,
     dataNodes |-> dataNodes, clock |-> clock, calls |-> 0, pubs |-> 0]

\* ------------------------------------------------------- component callbacks
getLevel(flatNode) == flatNode.level

isExpandable(flatNode) == flatNode.expandable

getChildren(node) == node.children

\* transformer that never reuses the flat node of a nested node.
transformerAlwaysNew(w, node, level) ==
    LET flatNode == Len(w.flat) + 1
        fields == [item |-> w.heap[node].item,
                   id |-> w.heap[node].id,
                   type |-> w.heap[node].type,
                   level |-> level,
                   expandable |-> w.heap[node].hasChildren
                                  /\ Len(w.heap[node].children) > 0]
    IN  [w |-> [w EXCEPT !.flat = Append(@, fields),
                         !.flatNodeMap = MapSet(@, flatNode, node),
                         !.nestedNodeMap = MapSet(@, node, flatNode)],
         flatNode |-> flatNode]

\* transformer that does not record the level it is given.
transformerLevelZero(w, node, level) ==
    LET existingNode == MapGet(w.nestedNodeMap, node)
        reuse == existingNode # null /\ w.flat[existingNode].item = w.heap[node].item
        flatNode == IF reuse THEN existingNode ELSE Len(w.flat) + 1
        fields == [item |-> w.heap[node].item,
                   id |-> w.heap[node].id,
                   type |-> w.heap[node].type,
                   level |-> 0,
                   expandable |-> w.heap[node].hasChildren
                                  /\ Len(w.heap[node].children) > 0]
    IN  [w |-> [w EXCEPT !.flat = IF reuse THEN [@ EXCEPT ![flatNode] = fields]
                                  ELSE Append(@, fields),
                         !.flatNodeMap = MapSet(@, flatNode, node),
                         !.nestedNodeMap = MapSet(@, node, flatNode)],
         flatNode |-> flatNode]

\* transformer(node, level): the flat node of a nested node, reused when the
\* nested node already has one carrying the same item.
transformer(w, node, level) ==
    LET existingNode == MapGet(w.nestedNodeMap, node)
        reuse == existingNode # null /\ w.flat[existingNode].item = w.heap[node].item
        flatNode == IF reuse THEN existingNode ELSE Len(w.flat) + 1
        fields == [item |-> w.heap[node].item,
                   id |-> w.heap[node].id,
                   type |-> w.heap[node].type,
                   level |-> level,
                   expandable |-> w.heap[node].hasChildren
                                  /\ Len(w.heap[node].children) > 0]
    IN  [w |-> [w EXCEPT !.flat = IF reuse THEN [@ EXCEPT ![flatNode] = fields]
                                  ELSE Append(@, fields),
                         !.flatNodeMap = MapSet(@, flatNode, node),
                         !.nestedNodeMap = MapSet(@, node, flatNode)],
         flatNode |-> flatNode]

\* MatTreeFlattener.flattenNodes: pre-order traversal calling the transformer
\* with the recursion depth, descending into the children of expandable nodes.
RECURSIVE flattenNode(_, _, _), flattenChildren(_, _, _)
flattenNode(acc, node, level) ==
    LET t == transformer(acc.w, node, level)
        acc2 == [w |-> t.w, out |-> Append(acc.out, t.flatNode)]
    IN  IF isExpandable(t.w.flat[t.flatNode]) /\ t.w.heap[node].hasChildren
        THEN flattenChildren(acc2, getChildren(t.w.heap[node]), level)
        ELSE acc2

flattenChildren(acc, children, level) ==
    IF children = <<>> THEN acc
    ELSE flattenChildren(flattenNode(acc, Head(children), level + 1),
                         Tail(children), level)

RECURSIVE flattenRoots(_, _)
flattenRoots(acc, roots) ==
    IF roots = <<>> THEN acc
    ELSE flattenRoots(flattenNode(acc, Head(roots), 0), Tail(roots))

flattenNodes(w, structuredData) == flattenRoots([w |-> w, out |-> <<>>], structuredData)

\* dataChange.next(value): the subject takes the value and the subscriber of
\* the component sets dataSource.data, which flattens the forest again.
next(w, value) ==
    LET acc == flattenNodes([w EXCEPT !.dataChange = value], value.value)
    IN  [acc.w EXCEPT !.dataNodes = acc.out, !.pubs = @ + 1]

\* ------------------------------------------------------- ChecklistDatabase
\* insertItem that puts the new node first.
insertItemPrepend(w, parent, name, now) ==
    LET c == [w EXCEPT !.calls = @ + 1]
        new == Len(w.heap) + 1
    IN  IF c.heap[parent].hasChildren
        THEN next([c EXCEPT !.heap = [Append(@, [children |-> <<>>, hasChildren |-> TRUE,
                                                 item |-> name, id |-> now,
                                                 type |-> "file"])
                                      EXCEPT ![parent].children = <<new>> \o @],
                            !.clock = now],
                  c.dataChange)
        ELSE c

\* insertItem without the test of parent.children: a leaf gets a children sequence.
insertItemNoGuard(w, parent, name, now) ==
    LET c == [w EXCEPT !.calls = @ + 1]
        new == Len(w.heap) + 1
    IN  next([c EXCEPT !.heap = [Append(@, [children |-> <<>>, hasChildren |-> TRUE,
                                            item |-> name, id |-> now,
                                            type |-> "file"])
                                 EXCEPT ![parent].children = Append(@, new),
                                        ![parent].hasChildren = TRUE],
                       !.clock = now],
             c.dataChange)

insertItem(w, parent, name, now) ==
    LET c == [w EXCEPT !.calls = @ + 1]
        new == Len(w.heap) + 1
    IN  IF c.heap[parent].hasChildren
        THEN next([c EXCEPT !.heap = [Append(@, [children |-> <<>>, hasChildren |-> TRUE,
                                                 item |-> name, id |-> now,
                                                 type |-> "file"])
                                      EXCEPT ![parent].children = Append(@, new)],
                            !.clock = now],
                  c.dataChange)
        ELSE c

insertFolderItem(w, parent, name, now) ==
    LET c == [w EXCEPT !.calls = @ + 1]
        new == Len(w.heap) + 1
    IN  IF c.heap[parent].hasChildren
        THEN next([c EXCEPT !.heap = [Append(@, [children |-> <<>>, hasChildren |-> TRUE,
                                                 item |-> name, id |-> now,
                                                 type |-> "folder"])
                                      EXCEPT ![parent].children = Append(@, new)],
                            !.clock = now],
                  c.dataChange)
        ELSE c

deleteChildItem(w, parent, name) ==
    LET c == [w EXCEPT !.calls = @ + 1]
        new == Len(w.heap) + 1
    IN  IF c.heap[parent].hasChildren
        THEN next([c EXCEPT !.heap = [Append(@, [children |-> <<>>, hasChildren |-> FALSE,
                                                 item |-> name, id |-> undefinedId,
                                                 type |-> undefinedType])
                                      EXCEPT ![parent].children = <<new>>]],
                  c.dataChange)
        ELSE c

insertRootItem(w, now) ==
    LET c == [w EXCEPT !.calls = @ + 1]
        new == Len(w.heap) + 1
        d == [c.dataChange EXCEPT !.value = Append(@, new)]
    IN  next([c EXCEPT !.heap = Append(@, [children |-> <<>>, hasChildren |-> TRUE,
                                           item |-> "", id |-> now, type |-> "folder"]),
                       !.dataChange = d,
                       !.clock = now],
             d)

\* updateItem that does not publish.
updateItemNoPublish(w, node, name) ==
    LET c == [w EXCEPT !.calls = @ + 1]
    IN  [c EXCEPT !.heap[node].item = name]

updateItem(w, node, name) ==
    LET c == [w EXCEPT !.calls = @ + 1]
    IN  next([c EXCEPT !.heap[node].item = name], c.dataChange)

\* deleteItem that removes the root at the index argument i, not at the index found.
deleteItemAtI(w, node, i, isFlateNode, j) ==
    LET c == [w EXCEPT !.calls = @ + 1]
    IN  IF isFlateNode
        THEN next([c EXCEPT !.heap[c.dataChange.value[j + 1]].children = splice(@, i)],
                  c.dataChange)
        ELSE LET d == [c.dataChange EXCEPT !.value = splice(@, i)]
             IN  next([c EXCEPT !.dataChange = d], d)

\* deleteItem(node, i, isFlateNode, j); i and j are 0-based as in the code.
deleteItem(w, node, i, isFlateNode, j) ==
    LET c == [w EXCEPT !.calls = @ + 1]
    IN  IF isFlateNode
        THEN next([c EXCEPT !.heap[c.dataChange.value[j + 1]].children = splice(@, i)],
                  c.dataChange)
        ELSE LET index == findIndex(c.heap, c.dataChange.value, c.heap[node].id)
                 d == [c.dataChange EXCEPT !.value = splice(@, index)]
             IN  next([c EXCEPT !.dataChange = d], d)

\* --------------------------------------------------- TreeChecklistExample
\* getParentNode(node): the nearest entry before node in treeControl.dataNodes
\* whose level is smaller; null at level 0 or when there is none.
\* The scan with <= in the place of <.
RECURSIVE getParentNodeScanLeq(_, _, _)
getParentNodeScanLeq(w, currentLevel, i) ==
    IF i < 0 THEN null
    ELSE LET currentNode == w.dataNodes[i + 1]
         IN  IF getLevel(w.flat[currentNode]) <= currentLevel THEN currentNode
             ELSE getParentNodeScanLeq(w, currentLevel, i - 1)

RECURSIVE getParentNodeScan(_, _, _)
getParentNodeScan(w, currentLevel, i) ==
    IF i < 0 THEN null
    ELSE LET currentNode == w.dataNodes[i + 1]
         IN  IF getLevel(w.flat[currentNode]) < currentLevel THEN currentNode
             ELSE getParentNodeScan(w, currentLevel, i - 1)

getParentNode(w, node) ==
    LET currentLevel == getLevel(w.flat[node])
    IN  IF currentLevel < 1 THEN null
        ELSE getParentNodeScan(w, currentLevel, indexOf(w.dataNodes, node) - 1)

\* deleteNode(node): delete the nested node of a flat node from the root sequence.
deleteNode(w, node) ==
    LET nestedNode == MapGet(w.flatNodeMap, node)
    IN  deleteItem(w, nestedNode, 0, FALSE, 0)

\* deleteItem(node) of the component, first branch (data.length > 0): the
\* inner loop over the children of root j, from the last to the first.
RECURSIVE deleteItemInner(_, _, _, _)
deleteItemInner(w, item, j, i) ==
    IF i < 0 THEN w
    ELSE LET flatNode == w.heap[w.dataChange.value[j + 1]].children
         IN  IF w.heap[flatNode[i + 1]].item = item
             THEN deleteItemInner(deleteItem(w, null, i, TRUE, j), item, j, i - 1)
             ELSE deleteItemInner(w, item, j, i - 1)

\* The outer loop over the root sequence, from the last root to the first.
RECURSIVE deleteItemOuter(_, _, _)
deleteItemOuter(w, node, j) ==
    IF j < 0 THEN w
    ELSE LET flatNode == w.heap[w.dataChange.value[j + 1]].children
         IN  IF Len(flatNode) > 0
             THEN deleteItemOuter(
                      deleteItemInner(w, w.flat[node].item, j, Len(flatNode) - 1),
                      node, j - 1)
             ELSE deleteItemOuter(deleteNode(w, node), node, j - 1)

\* deleteItem(node) of the component.  With an empty root sequence the else
\* branch reads data[0].children of an undefined entry: a TypeError before
\* anything is changed.
deleteItemHandler(w, node) ==
    IF Len(w.dataChange.value) > 0
    THEN deleteItemOuter(w, node, Len(w.dataChange.value) - 1)
    ELSE w

\* ------------------------------------------------------------------ state
Init ==
    /\ heap = <<>>
    /\ dataChange = [ref |-> 1, value |-> <<>>]
    /\ clock = 0
    /\ flat = <<>>
    /\ flatNodeMap = <<>>
    /\ nestedNodeMap = <<>>
    /\ dataNodes = <<>>
    /\ call = Called("init", World)

\* The values new Date().valueOf() may return now: the clock does not go back.
Now == {t \in {clock, clock + 1} : t <= MaxClock}

\* The nested nodes that are in the forest (reachable from the root sequence).
RECURSIVE Subtree(_, _)
Subtree(h, n) ==
    {n} \cup UNION {Subtree(h, h[n].children[k]) : k \in 1..Len(h[n].children)}

Forest(h, roots) == UNION {Subtree(h, roots[k]) : k \in 1..Len(roots)}

Live == Forest(heap, dataChange.value)

\* The flat nodes the tree shows: the handlers are called on one of them.
Shown == {dataNodes[k] : k \in 1..Len(dataNodes)}

\* The result of a call becomes the state, within the bounds of the model.
Commit(w, op) ==
    /\ Len(w.heap) <= MaxNodes
    /\ Len(w.flat) <= MaxFlat
    /\ heap' = w.heap
    /\ dataChange' = w.dataChange
    /\ clock' = w.clock
    /\ flat' = w.flat
    /\ flatNodeMap' = w.flatNodeMap
    /\ nestedNodeMap' = w.nestedNodeMap
    /\ dataNodes' = w.dataNodes
    /\ call' = Called(op, w)

\* ---------------------------------------------------- component handlers
\* (treeControl.expand(node), which addNewItem, addNewRoot and addNewChildItem
\* call last, changes the expansion model of the tree control only: no
\* operation of the store or of the component reads it.)
AddRootItem ==
    \E now \in Now :
        Commit(insertRootItem(World, now), "insertRootItem")

AddNewItem ==
    \E node \in Shown, now \in Now :
        Commit(insertItem(World, MapGet(flatNodeMap, node), "", now),
               "insertItem")

AddNewRoot ==
    \E node \in Shown, now \in Now :
        Commit(insertFolderItem(World, MapGet(flatNodeMap, node), "", now),
               "insertFolderItem")

AddNewChildItem ==
    \E node \in Shown, now \in Now :
        Commit(insertItem(World, MapGet(flatNodeMap, node), "", now),
               "insertItem")

SaveNode ==
    \E node \in Shown, itemValue \in Labels :
        Commit(updateItem(World, MapGet(flatNodeMap, node), itemValue),
               "updateItem")

DeleteItem ==
    \E node \in Shown :
        Commit(deleteItemHandler(World, node), "deleteItemHandler")

DeleteNode ==
    \E node \in Shown :
        Commit(deleteNode(World, node), "deleteNode")

\* deleteNewChildItem only looks the nested node up and logs it.
DeleteNewChildItem ==
    \E node \in Shown :
        Commit(World, "deleteNewChildItem")

\* ------------------------------------- store operation called directly
\* No handler of the component calls deleteChildItem; it is called here on a
\* node of the forest with any label.
DeleteChildItem ==
    \E parent \in Live, name \in Labels :
        Commit(deleteChildItem(World, parent, name), "deleteChildItem")

Next ==
    \/ AddRootItem
    \/ AddNewItem
    \/ AddNewRoot
    \/ AddNewChildItem
    \/ SaveNode
    \/ DeleteItem
    \/ DeleteNode
    \/ DeleteNewChildItem
    \/ DeleteChildItem

Spec == Init /\ [][Next]_vars

\* ------------------------------------------------------------ properties
Roots == dataChange.value

Nodes == 1..Len(heap)

\* The sequence s without the entry at position k (1-based).
RemoveAt(s, k) == SubSeq(s, 1, k - 1) \o SubSeq(s, k + 1, Len(s))

\* The sequence s without the entries equal to x.
Without(s, x) == SelectSeq(s, LAMBDA e : e # x)

\* The index arguments tried: every position and one beyond the end.
Indexes == 0..MaxNodes

IdMatchesRoot(node) == \E k \in 1..Len(Roots) : heap[Roots[k]].id = heap[node].id

\* C1: deleteItem with isFlateNode = FALSE and a node whose id is the id of no
\* root entry leaves the root sequence as it was.
C1_UnmatchedDeleteIsNoOp ==
    \A node \in Nodes, i \in Indexes :
        ~IdMatchesRoot(node)
            => deleteItem(World, node, i, FALSE, 0).dataChange.value = Roots

\* C2: deleteItem with isFlateNode = FALSE and a node whose id matches a root
\* entry removes exactly one root entry, one with that id, whatever the index
\* argument is; the other roots keep their order and no node is changed.
C2_MatchedDeleteRemovesOne ==
    \A node \in Nodes, i \in Indexes :
        IdMatchesRoot(node)
            => LET w == deleteItem(World, node, i, FALSE, 0)
               IN  /\ \E k \in 1..Len(Roots) :
                         /\ heap[Roots[k]].id = heap[node].id
                         /\ w.dataChange.value = RemoveAt(Roots, k)
                   /\ Len(w.dataChange.value) = Len(Roots) - 1
                   /\ w.heap = heap

\* deleteNode has removed a root that was not the last one (the one a failed
\* search removes), from roots that all carry different ids.
C2_Witness ==
    /\ call.op = "deleteNode"
    /\ Len(call.before) >= 2
    /\ \A k, m \in 1..Len(call.before) :
          k # m => heap[call.before[k]].id # heap[call.before[m]].id
    /\ \E k \in 1..(Len(call.before) - 1) : Roots = RemoveAt(call.before, k)

\* C3: no two nodes created by insertRootItem, insertFolderItem or insertItem
\* carry the same id.
C3_IdsUnique ==
    \A m, n \in Nodes :
        (m # n /\ heap[m].id # undefinedId /\ heap[n].id # undefinedId)
            => heap[m].id # heap[n].id

\* C4: insertItem and insertFolderItem on a parent with a children sequence
\* append one new node (file / folder, the given label, empty children) at the
\* end of parent.children and change nothing else of the forest.
Appended(w, parent, name, now, kind) ==
    LET new == Len(heap) + 1
    IN  /\ Len(w.heap) = new
        /\ w.heap[new] = [children |-> <<>>, hasChildren |-> TRUE, item |-> name,
                          id |-> now, type |-> kind]
        /\ w.heap[parent] = [heap[parent] EXCEPT !.children = Append(@, new)]
        /\ Len(w.heap[parent].children) = Len(heap[parent].children) + 1
        /\ \A n \in Nodes : n # parent => w.heap[n] = heap[n]
        /\ w.dataChange = dataChange

C4_InsertAppendsOne ==
    \A parent \in Nodes, name \in Labels, now \in Now :
        heap[parent].hasChildren
            => /\ Appended(insertItem(World, parent, name, now), parent, name, now, "file")
               /\ Appended(insertFolderItem(World, parent, name, now), parent, name, now,
                           "folder")

C4_Witness ==
    /\ call.op \in {"insertItem", "insertFolderItem"}
    /\ call.pubs = 1
    /\ \E parent \in Live :
          /\ Len(heap[parent].children) >= 2
          /\ heap[parent].children[Len(heap[parent].children)] = Len(heap)

\* C5: insertItem and insertFolderItem on a parent without a children sequence
\* change nothing: the nodes, the root sequence and the flat view stay as they are.
Untouched(w) ==
    /\ w.heap = heap
    /\ w.dataChange = dataChange
    /\ w.dataNodes = dataNodes
    /\ w.flat = flat

C5_InsertOnLeafIsNoOp ==
    \A parent \in Nodes, name \in Labels, now \in Now :
        ~heap[parent].hasChildren
            => /\ Untouched(insertItem(World, parent, name, now))
               /\ Untouched(insertFolderItem(World, parent, name, now))

\* An insert was invoked and published nothing: its parent, a node of the
\* forest, has no children sequence.
C5_Witness ==
    /\ call.op \in {"insertItem", "insertFolderItem"}
    /\ call.calls = 1
    /\ call.pubs = 0
    /\ \E parent \in Live : ~heap[parent].hasChildren

\* P(leaf, w) of every call of a mutation operation of the store from the
\* current state on the nodes of the forest, w being the result of the call
\* and leaf telling that the call was given a parent without a children
\* sequence; deleteItem by id is given any node, in the forest or not, as
\* deleteNode may hand it a node it has removed before.  The index i of a
\* deleteItem in the flat context runs over the positions of the children of
\* root j and one position beyond them.
ForEveryStoreCall(P(_, _)) ==
    /\ \A now \in Now : P(FALSE, insertRootItem(World, now))
    /\ \A parent \in Live, name \in Labels, now \in Now :
          /\ P(~heap[parent].hasChildren, insertItem(World, parent, name, now))
          /\ P(~heap[parent].hasChildren, insertFolderItem(World, parent, name, now))
    /\ \A parent \in Live, name \in Labels :
          P(~heap[parent].hasChildren, deleteChildItem(World, parent, name))
    /\ \A node \in Live, name \in Labels : P(FALSE, updateItem(World, node, name))
    /\ \A j \in 0..(Len(Roots) - 1) :
          \A i \in 0..Len(heap[Roots[j + 1]].children) :
              P(FALSE, deleteItem(World, null, i, TRUE, j))
    /\ \A node \in Nodes : P(FALSE, deleteItem(World, node, 0, FALSE, 0))

\* A publication hands the subscribers the root sequence of the store, the
\* same array as before the call, and the flat view is the one of the forest
\* the call leaves.
PublishedOnce(w) ==
    /\ w.pubs = 1
    /\ w.dataChange.ref = dataChange.ref
    /\ Len(w.dataNodes) = Cardinality(Forest(w.heap, w.dataChange.value))
    /\ \A k \in 1..Len(w.dataNodes) :
          w.flat[w.dataNodes[k]].item = w.heap[w.flatNodeMap[w.dataNodes[k]]].item

\* C6 as claimed: every call of a store mutation operation publishes, also a
\* call that changes nothing.
PublishesAlways(leaf, w) == PublishedOnce(w)

PublishesUnlessLeaf(leaf, w) ==
    IF leaf THEN w.pubs = 0 /\ Untouched(w) ELSE PublishedOnce(w)

RECURSIVE Preorder(_, _, _)
Preorder(h, s, d) ==
    IF s = <<>> THEN <<>>
    ELSE <<[node |-> Head(s), depth |-> d]>>
         \o Preorder(h, h[Head(s)].children, d + 1)
         \o Preorder(h, Tail(s), d)

\* The nested node and the level of the k-th entry of the flat sequence.
Entry(k) == [node |-> MapGet(flatNodeMap, dataNodes[k]), depth |-> flat[dataNodes[k]].level]

\* The positions of the flat sequence, and those of depth 0 in their order.
Positions == 1..Len(dataNodes)

DepthZero == SelectSeq(dataNodes, LAMBDA f : flat[f].level = 0)

\* The parents of a nested node in the forest.
ParentsOf(n) ==
    {p \in Live : \E k \in 1..Len(heap[p].children) : heap[p].children[k] = n}

\* C7: the flat sequence is the depth-first pre-order of the forest with the
\* depths; its entries of depth 0 are the projections of the roots in their
\* order, and the entry of a node that is not a root has the depth of the
\* projection of its parent plus 1.
C7_FlatIsPreorder ==
    /\ [k \in Positions |-> Entry(k)] = Preorder(heap, Roots, 0)
    /\ [k \in 1..Len(DepthZero) |-> MapGet(flatNodeMap, DepthZero[k])] = Roots
    /\ \A k \in Positions :
          /\ MapGet(nestedNodeMap, Entry(k).node) = dataNodes[k]
          /\ Entry(k).depth > 0 =>
                /\ ParentsOf(Entry(k).node) # {}
                /\ \A p \in ParentsOf(Entry(k).node) :
                      /\ \E m \in 1..(k - 1) : dataNodes[m] = MapGet(nestedNodeMap, p)
                      /\ Entry(k).depth = flat[MapGet(nestedNodeMap, p)].level + 1

C7_Witness ==
    /\ Len(Roots) >= 2
    /\ call.pubs >= 1
    /\ \E k \in Positions : Entry(k).depth = 1 /\ k < Len(dataNodes)

\* C8: flattening again gives every nested node whose label is the label of
\* its flat node that same flat node, and a nested node whose label changed a
\* new flat node; flattening an unchanged forest gives the same flat sequence.
Projected(w) ==
    \A n \in Forest(w.heap, w.dataChange.value) \cap DOMAIN nestedNodeMap :
        IF flat[nestedNodeMap[n]].item = w.heap[n].item
        THEN w.nestedNodeMap[n] = nestedNodeMap[n]
        ELSE w.nestedNodeMap[n] \notin DOMAIN flatNodeMap

KeepsIdentity(leaf, w) ==
    w.pubs >= 1
        => /\ Projected(w)
           /\ (w.heap = heap /\ w.dataChange = dataChange) => w.dataNodes = dataNodes

C8_FlattenKeepsIdentity ==
    /\ ForEveryStoreCall(KeepsIdentity)
    /\ \A node \in Shown : Projected(deleteItemHandler(World, node))
    /\ next(World, dataChange).dataNodes = dataNodes

\* updateItem changed the label of a node of the forest, which got the newest
\* flat node and left its old one behind, and another node kept its flat node.
C8_Witness ==
    /\ call.op = "updateItem"
    /\ \E n \in Live, f \in DOMAIN flatNodeMap :
          /\ flatNodeMap[f] = n
          /\ nestedNodeMap[n] = Len(flat)
          /\ f # Len(flat)
          /\ flat[f].item # heap[n].item
          /\ \E k \in Positions : dataNodes[k] < Len(flat) /\ Entry(k).node # n

\* C9: getParentNode of an entry of the flat sequence is none at depth 0, and
\* at depth N > 0 it is the nearest entry before it whose depth is N - 1,
\* which exists.
ExactParents(k) ==
    {m \in 1..(k - 1) : flat[dataNodes[m]].level = flat[dataNodes[k]].level - 1}

C9_ParentIsNearestShallower ==
    \A k \in Positions :
        IF flat[dataNodes[k]].level = 0
        THEN getParentNode(World, dataNodes[k]) = null
        ELSE /\ ExactParents(k) # {}
             /\ \E m \in ExactParents(k) :
                   /\ \A x \in ExactParents(k) : x <= m
                   /\ getParentNode(World, dataNodes[k]) = dataNodes[m]

C9_Witness ==
    \E k \in Positions :
        /\ flat[dataNodes[k]].level > 0
        /\ k > 1
        /\ flat[dataNodes[k - 1]].level >= flat[dataNodes[k]].level
        /\ getParentNode(World, dataNodes[k]) # dataNodes[k - 1]

\* C10: deleteItem(flatNode) of the component removes the nested node of the
\* entry, with its subtree, and nothing else: the roots and the children of
\* every node are what they were, without that node.  (Stated for the forests
\* whose nodes all carry different ids, where it fails as well.)
C10_HandlerDeletesExactlyTheNode ==
    (\A m, n \in Nodes : m # n => heap[m].id # heap[n].id)
        => \A node \in Shown :
               LET n == MapGet(flatNodeMap, node)
                   w == deleteItemHandler(World, node)
               IN  /\ w.dataChange.value = Without(Roots, n)
                   /\ \A m \in Nodes :
                         w.heap[m].children = Without(heap[m].children, n)

=============================================================================
